---- MODULE Spec2Model ----
(***************************************************************************)
(* A model of package jsondescriber (jsondescriber.go).                    *)
(*                                                                         *)
(* A byte is a one-character string and a []byte a sequence of bytes.      *)
(* A json.RawMessage is a record [isNil, b]: Go tells a nil slice from an  *)
(* empty one with == nil, while bytes.Equal and json.Valid read only the   *)
(* bytes.  A map[string]X is a function whose DOMAIN is the set of keys.   *)
(***************************************************************************)
EXTENDS Integers, Sequences, FiniteSets, TLC

VARIABLES
    data,   \* the []byte handed to TypeOf, Describe, UnmarshalObject, UnmarshalArray
    shape,  \* the document data was rendered from, or [kind |-> "raw"]
    old,    \* the receiver *RawObject of Inventory, Diff and DiffCount
    new,    \* the argument *RawObject of Diff and DiffCount
    have,   \* whether the caller holds a RawObject in old
    jd,     \* the receiver *JsonDescription of Friendly
    op,     \* the function called last, "none" before the first call
    ret     \* what that call returned

vars == <<data, shape, old, new, have, jd, op, ret>>

----------------------------------------------------------------------------
(* Bounds of the model.                                                    *)

MaxChunks == 3
MaxMembers == 2
MaxKeys == 2
MaxTallyKinds == 3
MaxCount == 2

----------------------------------------------------------------------------
(* encoding/json's scanner, which json.Valid and json.Unmarshal run over   *)
(* the input: a pushdown automaton with one step function per position in  *)
(* the grammar.                                                            *)

isSpace(c) == c = " "

Digits == {"0", "1"}
Digits19 == {"1"}

NumSteps == {"Neg", "0", "1", "Dot", "Dot0", "E", "ESign", "E0"}

ScanReset == [step |-> "BeginValue", stack |-> <<>>, endTop |-> FALSE, err |-> FALSE]

ScanError(s) == [s EXCEPT !.step = "Error", !.err = TRUE]

Top(s) == s.stack[Len(s.stack)]

SetTop(s, ps) == [s EXCEPT !.stack[Len(s.stack)] = ps]

popParseState(s) ==
    LET st == SubSeq(s.stack, 1, Len(s.stack) - 1)
    IN  IF Len(st) = 0
        THEN [s EXCEPT !.stack = st, !.step = "EndTop", !.endTop = TRUE]
        ELSE [s EXCEPT !.stack = st, !.step = "EndValue"]

stepEndTop(s, c) == IF isSpace(c) THEN s ELSE ScanError(s)

stepEndValue(s, c) ==
    IF Len(s.stack) = 0
    THEN stepEndTop([s EXCEPT !.step = "EndTop", !.endTop = TRUE], c)
    ELSE IF isSpace(c)
    THEN [s EXCEPT !.step = "EndValue"]
    ELSE CASE Top(s) = "ObjectKey" ->
                IF c = ":"
                THEN [SetTop(s, "ObjectValue") EXCEPT !.step = "BeginValue"]
                ELSE ScanError(s)
           [] Top(s) = "ObjectValue" ->
                IF c = ","
                THEN [SetTop(s, "ObjectKey") EXCEPT !.step = "BeginString"]
                ELSE IF c = "}" THEN popParseState(s) ELSE ScanError(s)
           [] Top(s) = "ArrayValue" ->
                IF c = ","
                THEN [s EXCEPT !.step = "BeginValue"]
                ELSE IF c = "]" THEN popParseState(s) ELSE ScanError(s)
           [] OTHER -> ScanError(s)

stepBeginValue(s, c) ==
    IF isSpace(c) THEN s
    ELSE CASE c = "{" -> [s EXCEPT !.step = "BeginStringOrEmpty",
                                   !.stack = Append(@, "ObjectKey")]
           [] c = "[" -> [s EXCEPT !.step = "BeginValueOrEmpty",
                                   !.stack = Append(@, "ArrayValue")]
           [] c = "\"" -> [s EXCEPT !.step = "InString"]
           [] c = "-" -> [s EXCEPT !.step = "Neg"]
           [] c = "0" -> [s EXCEPT !.step = "0"]
           [] c = "t" -> [s EXCEPT !.step = "T"]
           [] c = "f" -> [s EXCEPT !.step = "F"]
           [] c = "n" -> [s EXCEPT !.step = "N"]
           [] c \in Digits19 -> [s EXCEPT !.step = "1"]
           [] OTHER -> ScanError(s)

stepBeginValueOrEmpty(s, c) ==
    IF isSpace(c) THEN s
    ELSE IF c = "]" THEN stepEndValue(s, c)
    ELSE stepBeginValue(s, c)

stepBeginString(s, c) ==
    IF isSpace(c) THEN s
    ELSE IF c = "\"" THEN [s EXCEPT !.step = "InString"]
    ELSE ScanError(s)

stepBeginStringOrEmpty(s, c) ==
    IF isSpace(c) THEN s
    ELSE IF c = "}" THEN stepEndValue(SetTop(s, "ObjectValue"), c)
    ELSE stepBeginString(s, c)

stepInString(s, c) ==
    IF c = "\"" THEN [s EXCEPT !.step = "EndValue"] ELSE s

step0(s, c) ==
    IF c = "." THEN [s EXCEPT !.step = "Dot"]
    ELSE IF c = "e" THEN [s EXCEPT !.step = "E"]
    ELSE stepEndValue(s, c)

step1(s, c) == IF c \in Digits THEN [s EXCEPT !.step = "1"] ELSE step0(s, c)

stepNeg(s, c) ==
    IF c = "0" THEN [s EXCEPT !.step = "0"]
    ELSE IF c \in Digits19 THEN [s EXCEPT !.step = "1"]
    ELSE ScanError(s)

stepDot(s, c) == IF c \in Digits THEN [s EXCEPT !.step = "Dot0"] ELSE ScanError(s)

stepDot0(s, c) ==
    IF c \in Digits THEN s
    ELSE IF c = "e" THEN [s EXCEPT !.step = "E"]
    ELSE stepEndValue(s, c)

stepESign(s, c) == IF c \in Digits THEN [s EXCEPT !.step = "E0"] ELSE ScanError(s)

stepE(s, c) == IF c \in {"+", "-"} THEN [s EXCEPT !.step = "ESign"] ELSE stepESign(s, c)

stepE0(s, c) == IF c \in Digits THEN s ELSE stepEndValue(s, c)

\* stepT .. stepNul: the literals true, false and null, one byte a step.
LitNext == [T |-> <<"r", "Tr">>, Tr |-> <<"u", "Tru">>, Tru |-> <<"e", "EndValue">>,
            F |-> <<"a", "Fa">>, Fa |-> <<"l", "Fal">>, Fal |-> <<"s", "Fals">>,
            Fals |-> <<"e", "EndValue">>,
            N |-> <<"u", "Nu">>, Nu |-> <<"l", "Nul">>, Nul |-> <<"l", "EndValue">>]

stepLit(s, c) ==
    IF c = LitNext[s.step][1] THEN [s EXCEPT !.step = LitNext[s.step][2]]
    ELSE ScanError(s)

ScanStep(s, c) ==
    CASE s.step = "Error" -> s
      [] s.step = "BeginValue" -> stepBeginValue(s, c)
      [] s.step = "BeginValueOrEmpty" -> stepBeginValueOrEmpty(s, c)
      [] s.step = "BeginString" -> stepBeginString(s, c)
      [] s.step = "BeginStringOrEmpty" -> stepBeginStringOrEmpty(s, c)
      [] s.step = "EndValue" -> stepEndValue(s, c)
      [] s.step = "EndTop" -> stepEndTop(s, c)
      [] s.step = "InString" -> stepInString(s, c)
      [] s.step = "Neg" -> stepNeg(s, c)
      [] s.step = "0" -> step0(s, c)
      [] s.step = "1" -> step1(s, c)
      [] s.step = "Dot" -> stepDot(s, c)
      [] s.step = "Dot0" -> stepDot0(s, c)
      [] s.step = "E" -> stepE(s, c)
      [] s.step = "ESign" -> stepESign(s, c)
      [] s.step = "E0" -> stepE0(s, c)
      [] s.step \in DOMAIN LitNext -> stepLit(s, c)

\* The decoder's pass over the bytes: the scanner's states after each of the
\* bytes lo..hi of b, from the state s.  The range is halved so that the
\* evaluation stays shallow.
RECURSIVE ScanRange(_, _, _, _)
ScanRange(b, lo, hi, s) ==
    IF lo > hi THEN <<>>
    ELSE IF lo = hi THEN <<ScanStep(s, b[lo])>>
    ELSE LET mid == (lo + hi) \div 2
             left == ScanRange(b, lo, mid, s)
         IN  left \o ScanRange(b, mid + 1, hi, left[Len(left)])

\* checkValid's loop: the state after the bytes lo..hi of b, from the
\* state s; it goes no further once a byte does not scan.
RECURSIVE ScanEnd(_, _, _, _)
ScanEnd(b, lo, hi, s) ==
    IF lo > hi THEN s
    ELSE IF lo = hi THEN ScanStep(s, b[lo])
    ELSE LET mid == (lo + hi) \div 2
             m == ScanEnd(b, lo, mid, s)
         IN  IF m.err THEN m ELSE ScanEnd(b, mid + 1, hi, m)

\* The scanner's state after each prefix of b: After(ScanTrace(b), i) is
\* the state after i bytes.
ScanTrace(b) == <<ScanReset>> \o ScanRange(b, 1, Len(b), ScanReset)

After(tr, i) == tr[i + 1]

\* scanner.eof: the input may end here iff the top-level value is complete.
ScanEof(s) ==
    IF s.err THEN FALSE
    ELSE IF s.endTop THEN TRUE
    ELSE ScanStep(s, " ").endTop

\* json.Valid(b)
Valid(b) == ScanEof(ScanEnd(b, 1, Len(b), ScanReset))

----------------------------------------------------------------------------
(* TypeOf                                                                  *)

NoErr == "nil"
ErrNotValid == "not valid json"

heuristics == [x \in {"{", "[", "\"", "t", "f", "n"} |->
    CASE x = "{" -> "object" [] x = "[" -> "array" [] x = "\"" -> "string"
      [] x = "t" -> "true" [] x = "f" -> "false" [] x = "n" -> "null"]

\* heuristics[string(data[0])]: a missing key reads as "", and indexing an
\* empty slice panics.
Lookup0(b) ==
    IF Len(b) = 0 THEN "panic"
    ELSE IF b[1] \in DOMAIN heuristics THEN heuristics[b[1]] ELSE ""

\* TypeOf with the table consulted before the validity check.
TypeOf_TableFirst(b) ==
    IF Len(b) > 0 /\ Lookup0(b) # ""
    THEN [typ |-> Lookup0(b), err |-> NoErr, panic |-> FALSE]
    ELSE IF ~Valid(b) THEN [typ |-> "", err |-> ErrNotValid, panic |-> FALSE]
    ELSE [typ |-> "number", err |-> NoErr, panic |-> FALSE]

TypeOf(b) ==
    IF ~Valid(b) THEN [typ |-> "", err |-> ErrNotValid, panic |-> FALSE]
    ELSE IF Lookup0(b) = "panic" THEN [typ |-> "", err |-> NoErr, panic |-> TRUE]
    ELSE IF Lookup0(b) = "" THEN [typ |-> "number", err |-> NoErr, panic |-> FALSE]
    ELSE [typ |-> Lookup0(b), err |-> NoErr, panic |-> FALSE]

----------------------------------------------------------------------------
(* json.Unmarshal into a RawObject or a RawArray: one level deep, every    *)
(* member kept as the bytes of its value.                                  *)

NilRaw == [isNil |-> TRUE, b |-> <<>>]

Raw(b) == [isNil |-> FALSE, b |-> b]

\* A member (a key or a value) of the top-level container starts at byte i.
IsStart(b, tr, i) ==
    /\ Len(After(tr, i - 1).stack) = 1
    /\ After(tr, i - 1).step \in {"BeginValue", "BeginValueOrEmpty", "BeginString", "BeginStringOrEmpty"}
    /\ ~isSpace(b[i])
    /\ b[i] \notin {"]", "}"}

\* A member of the top-level container ends at byte j: a string, a literal
\* or a nested container is closed; a number is followed by a byte that is
\* not part of it.
IsEnd(b, tr, j) ==
    /\ Len(After(tr, j).stack) = 1
    /\ \/ After(tr, j).step = "EndValue"
       \/ /\ After(tr, j).step \in NumSteps
          /\ j < Len(b)
          /\ After(tr, j + 1).step \notin NumSteps

\* The last byte of the member that starts at byte i.
ItemEnd(b, tr, i) ==
    CHOOSE j \in i..Len(b) : IsEnd(b, tr, j) /\ \A k \in i..(j - 1) : ~IsEnd(b, tr, k)

\* The members of the top-level container in the order of the text, each
\* with its first and last byte.
ItemsOf(b, tr) ==
    LET starts == {i \in 1..Len(b) : IsStart(b, tr, i)}
        nth(n) == CHOOSE i \in starts : Cardinality({j \in starts : j < i}) = n - 1
    IN  [n \in 1..Cardinality(starts) |-> [s |-> nth(n), e |-> ItemEnd(b, tr, nth(n))]]

Items(b) == ItemsOf(b, ScanTrace(b))

\* string(bytes)
RECURSIVE Str(_)
Str(b) == IF Len(b) = 0 THEN "" ELSE b[1] \o Str(Tail(b))

\* The first byte that is not white space, "" when there is none.
FirstByte(b) ==
    LET at == {i \in 1..Len(b) : ~isSpace(b[i])}
    IN  IF at = {} THEN "" ELSE b[CHOOSE i \in at : \A j \in at : i <= j]

ErrUnmarshal == "json: cannot unmarshal"

EmptyObject == [k \in {} |-> NilRaw]

\* json.Unmarshal(b, &map[string]json.RawMessage): a key given twice keeps
\* its last value.
DecodeObject(b) ==
    IF ~Valid(b) THEN [obj |-> EmptyObject, err |-> ErrNotValid]
    ELSE IF FirstByte(b) # "{" THEN [obj |-> EmptyObject, err |-> ErrUnmarshal]
    ELSE LET it == Items(b)
             n == Len(it) \div 2
             key(i) == Str(SubSeq(b, it[2 * i - 1].s + 1, it[2 * i - 1].e - 1))
             val(i) == Raw(SubSeq(b, it[2 * i].s, it[2 * i].e))
             last(k) == CHOOSE i \in 1..n : key(i) = k /\ \A j \in (i + 1)..n : key(j) # k
         IN  [obj |-> [k \in {key(i) : i \in 1..n} |-> val(last(k))], err |-> NoErr]

\* json.Unmarshal(b, &RawArray)
DecodeArray(b) ==
    IF ~Valid(b) THEN [arr |-> <<>>, err |-> ErrNotValid]
    ELSE IF FirstByte(b) # "[" THEN [arr |-> <<>>, err |-> ErrUnmarshal]
    ELSE LET it == Items(b)
         IN  [arr |-> [i \in 1..Len(it) |-> Raw(SubSeq(b, it[i].s, it[i].e))], err |-> NoErr]

ErrExpected(typ, want) == "given []byte is " \o typ \o ", expected " \o want

UnmarshalObject(b) ==
    LET t == TypeOf(b)
    IN  IF t.err # NoErr THEN [obj |-> EmptyObject, err |-> t.err]
        ELSE IF t.typ # "object" THEN [obj |-> EmptyObject, err |-> ErrExpected(t.typ, "object")]
        ELSE DecodeObject(b)

UnmarshalArray(b) ==
    LET t == TypeOf(b)
    IN  IF t.err # NoErr THEN [arr |-> <<>>, err |-> t.err]
        ELSE IF t.typ # "array" THEN [arr |-> <<>>, err |-> ErrExpected(t.typ, "array")]
        ELSE DecodeArray(b)

----------------------------------------------------------------------------
(* Describe and Inventory                                                  *)

NewJsonDescription == [Element |-> "undefined", Members |-> [k \in {} |-> 0]]

\* m[k] += 1 on a map[string]uint
Incr(m, k) ==
    IF k \in DOMAIN m THEN [m EXCEPT ![k] = @ + 1]
    ELSE [x \in DOMAIN m \cup {k} |-> IF x = k THEN 1 ELSE m[x]]

\* The loops of Describe with = 1 for += 1.
RECURSIVE CountMembers_Assign(_, _)
CountMembers_Assign(frags, m) ==
    IF Len(frags) = 0 THEN m
    ELSE CountMembers_Assign(Tail(frags),
             [x \in DOMAIN m \cup {TypeOf(frags[1].b).typ} |->
                 IF x = TypeOf(frags[1].b).typ THEN 1 ELSE m[x]])

\* The loops of Describe: every member's TypeOf kind counted, its error dropped.
RECURSIVE CountMembers(_, _)
CountMembers(frags, m) ==
    IF Len(frags) = 0 THEN m
    ELSE CountMembers(Tail(frags), Incr(m, TypeOf(frags[1].b).typ))

\* The values of a map, each key once, in some order.
RECURSIVE Values(_)
Values(o) ==
    IF DOMAIN o = {} THEN <<>>
    ELSE LET k == CHOOSE x \in DOMAIN o : TRUE
         IN  <<o[k]>> \o Values([x \in DOMAIN o \ {k} |-> o[x]])

Describe(b) ==
    LET t == TypeOf(b)
        descr == NewJsonDescription
    IN  IF t.err # NoErr THEN [descr |-> descr, err |-> t.err]
        ELSE IF t.typ = "object"
        THEN [descr |-> [Element |-> t.typ,
                         Members |-> CountMembers(Values(DecodeObject(b).obj), descr.Members)],
              err |-> NoErr]
        ELSE IF t.typ = "array"
        THEN [descr |-> [Element |-> t.typ,
                         Members |-> CountMembers(DecodeArray(b).arr, descr.Members)],
              err |-> NoErr]
        ELSE [descr |-> [Element |-> t.typ, Members |-> descr.Members], err |-> NoErr]

\* Inventory leaving out the keys whose value does not classify.
Inventory_SkipFailed(o) ==
    [inv |-> [k \in {x \in DOMAIN o : TypeOf(o[x].b).err = NoErr} |-> TypeOf(o[k].b).typ],
     err |-> NoErr]

\* Inventory returns the map alone: TypeOf's error is assigned to _.
Inventory(o) == [inv |-> [k \in DOMAIN o |-> TypeOf(o[k].b).typ], err |-> NoErr]

----------------------------------------------------------------------------
(* Diff and DiffCount.  Go ranges over a map in an order of its choosing:  *)
(* the loops take the order of the keys as a sequence.                     *)

\* m[k] on a RawObject: a missing key reads as the nil RawMessage.
Get(m, k) == IF k \in DOMAIN m THEN m[k] ELSE NilRaw

\* The orders in which a range loop may visit the keys of m.
Orders(m) ==
    {q \in [1..Cardinality(DOMAIN m) -> DOMAIN m] : \A i, j \in DOMAIN q : i # j => q[i] # q[j]}

\* One pass of Diff's first loop (lines 196-207): the list k is appended to.
DiffStep(this, that, k, acc) ==
    IF Get(that, k).isNil THEN [acc EXCEPT !.del = Append(@, k)]
    ELSE LET ot == TypeOf(Get(this, k).b).typ
             nt == TypeOf(Get(that, k).b).typ
         IN  IF ot # nt THEN [acc EXCEPT !.typ = Append(@, k)]
             ELSE IF Get(this, k).b # Get(that, k).b THEN [acc EXCEPT !.mod = Append(@, k)]
             ELSE acc

\* The first loop of Diff over the keys q of this.
RECURSIVE DiffThis(_, _, _, _)
DiffThis(this, that, q, acc) ==
    IF Len(q) = 0 THEN acc
    ELSE DiffThis(this, that, Tail(q), DiffStep(this, that, q[1], acc))

\* The second loop of Diff over the keys q of that (lines 210-214).
RECURSIVE DiffThat(_, _, _, _)
DiffThat(this, that, q, add) ==
    IF Len(q) = 0 THEN add
    ELSE DiffThat(this, that, Tail(q),
                  IF Get(this, q[1]).isNil THEN Append(add, q[1]) ELSE add)

Diff(this, that, qThis, qThat) ==
    LET acc == DiffThis(this, that, qThis, [del |-> <<>>, mod |-> <<>>, typ |-> <<>>])
    IN  [added |-> DiffThat(this, that, qThat, <<>>),
         deleted |-> acc.del,
         modified |-> acc.mod,
         typechanged |-> acc.typ]

\* DiffCount's first loop comparing the bytes before the kinds.
CountStep_BytesFirst(this, that, k, diff) ==
    IF Get(that, k).isNil THEN Incr(diff, "deleted")
    ELSE IF Get(this, k).b # Get(that, k).b THEN Incr(diff, "modified")
    ELSE diff

\* One pass of DiffCount's first loop (lines 232-243).
CountStep(this, that, k, diff) ==
    IF Get(that, k).isNil THEN Incr(diff, "deleted")
    ELSE LET ot == TypeOf(Get(this, k).b).typ
             nt == TypeOf(Get(that, k).b).typ
         IN  IF ot # nt THEN Incr(diff, "typechanged")
             ELSE IF Get(this, k).b # Get(that, k).b THEN Incr(diff, "modified")
             ELSE diff

\* The first loop of DiffCount.
RECURSIVE CountThis(_, _, _, _)
CountThis(this, that, q, diff) ==
    IF Len(q) = 0 THEN diff
    ELSE CountThis(this, that, Tail(q), CountStep(this, that, q[1], diff))

\* The second loop of DiffCount (lines 246-250).
RECURSIVE CountThat(_, _, _, _)
CountThat(this, that, q, diff) ==
    IF Len(q) = 0 THEN diff
    ELSE CountThat(this, that, Tail(q),
                   IF Get(this, q[1]).isNil THEN Incr(diff, "added") ELSE diff)

DiffCount(this, that, qThis, qThat) ==
    CountThat(this, that, qThat, CountThis(this, that, qThis, [k \in {} |-> 0]))

----------------------------------------------------------------------------
(* descElem and Friendly                                                   *)

DigitChar == <<"0", "1", "2", "3", "4", "5", "6", "7", "8", "9">>

\* fmt's %d of a uint
RECURSIVE FmtD(_)
FmtD(n) == IF n < 10 THEN DigitChar[n + 1] ELSE FmtD(n \div 10) \o DigitChar[(n % 10) + 1]

\* descElem's loop with the plural taken at count >= 1.
Phrase_PluralOne(counts, k) ==
    IF counts[k] >= 1 THEN <<FmtD(counts[k]) \o " " \o k \o "s">> ELSE <<>>

\* One pass of descElem's loop: what the key k adds to the list.
Phrase(counts, k) ==
    IF counts[k] > 1 THEN <<FmtD(counts[k]) \o " " \o k \o "s">>
    ELSE IF counts[k] = 1 THEN <<FmtD(counts[k]) \o " " \o k>>
    ELSE <<>>

\* descElem, ranging over counts in the order q.
RECURSIVE descElem(_, _)
descElem(counts, q) ==
    IF Len(q) = 0 THEN <<>>
    ELSE Phrase(counts, q[1]) \o descElem(counts, Tail(q))

\* strings.Join
RECURSIVE Join(_, _)
Join(list, sep) ==
    IF Len(list) = 0 THEN ""
    ELSE IF Len(list) = 1 THEN list[1]
    ELSE list[1] \o sep \o Join(Tail(list), sep)

\* The branch of Friendly for object and array (lines 92-120).
Oxfordize(elem, inv) ==
    LET count == Len(inv)
    IN  IF count = 1 THEN "an " \o elem \o " with " \o inv[1]
        ELSE IF count = 2 THEN "an " \o elem \o " with " \o Join(inv, " and ")
        ELSE IF count > 2
        THEN "an " \o elem \o " with " \o Join(SubSeq(inv, 1, count - 1), ", ")
                 \o ", and " \o inv[count]
        ELSE "an empty " \o elem

Friendly(d, q) ==
    IF d.Element \in {"string", "number"} THEN "a " \o d.Element
    ELSE IF d.Element \in {"true", "false", "null"} THEN "a literal " \o d.Element
    ELSE IF d.Element \in {"object", "array"} THEN Oxfordize(d.Element, descElem(d.Members, q))
    ELSE "undefined"

----------------------------------------------------------------------------
(* The inputs.                                                             *)

Kinds == {"object", "array", "string", "number", "true", "false", "null"}

bTrue == <<"t", "r", "u", "e">>
bFalse == <<"f", "a", "l", "s", "e">>
bNull == <<"n", "u", "l", "l">>

\* Byte strings the raw inputs are put together from: the tokens of JSON,
\* white space, and bytes that belong nowhere.
Chunks ==
    {<<" ">>, <<"{">>, <<"}">>, <<"[">>, <<"]">>, <<",">>, <<"\"", "a", "\"">>,
     <<"1">>, <<"-">>, <<".">>, <<"t">>, bTrue}

RECURSIVE Concat(_)
Concat(cs) == IF Len(cs) = 0 THEN <<>> ELSE cs[1] \o Concat(Tail(cs))

RawInputs == {Concat(cs) : cs \in UNION {[1..n -> Chunks] : n \in 0..MaxChunks}}

RawShape == [kind |-> "raw", members |-> <<>>, ws |-> "none"]

\* Valid values of every kind; the last one is nested and holds white space
\* and commas of its own, one of them in a string.
Frags ==
    {<<"{", "}">>, <<"[", "]">>, <<"\"", "a", "\"">>, <<"-", "1", ".", "0", "e", "1">>,
     bTrue, bFalse, bNull,
     <<"[", "{", "}", ",", " ", "\"", ",", "\"", "]">>}

DocKeys == {"a", "b"}

WsModes == {"none", "lead", "trail", "inner"}

\* The documents: objects and arrays of up to MaxMembers members, and the
\* values alone.  A member of an array, and a value alone, has the key "".
Shapes ==
    [kind : {"object"}, ws : WsModes,
     members : UNION {[1..n -> [key : DocKeys, val : Frags]] : n \in 0..MaxMembers}]
    \cup
    [kind : {"array"}, ws : WsModes,
     members : UNION {[1..n -> [key : {""}, val : Frags]] : n \in 0..MaxMembers}]
    \cup
    [kind : {"scalar"}, ws : WsModes \ {"inner"},
     members : [1..1 -> [key : {""}, val : Frags]]]

Sp(sh, mode) == IF sh.ws = mode THEN <<" ">> ELSE <<>>

RECURSIVE RenderMembers(_, _)
RenderMembers(sh, ms) ==
    IF Len(ms) = 0 THEN <<>>
    ELSE (IF sh.kind = "object"
          THEN <<"\"", ms[1].key, "\"">> \o Sp(sh, "inner") \o <<":">> \o Sp(sh, "inner")
          ELSE <<>>)
         \o ms[1].val \o Sp(sh, "inner")
         \o (IF Len(ms) > 1 THEN <<",">> \o Sp(sh, "inner") ELSE <<>>)
         \o RenderMembers(sh, Tail(ms))

\* The text of a document.
Render(sh) ==
    IF sh.kind = "scalar" THEN Sp(sh, "lead") \o sh.members[1].val \o Sp(sh, "trail")
    ELSE Sp(sh, "lead")
         \o (IF sh.kind = "object" THEN <<"{">> ELSE <<"[">>)
         \o Sp(sh, "inner") \o RenderMembers(sh, sh.members)
         \o (IF sh.kind = "object" THEN <<"}">> ELSE <<"]">>)
         \o Sp(sh, "trail")

KeyNames == <<"a", "b", "c", "d">>

Keys == {KeyNames[i] : i \in 1..MaxKeys}

\* The fragments a RawObject built by hand may hold: nil, valid values, and
\* bytes that are not JSON.
FragVals ==
    {NilRaw, Raw(<<"1">>), Raw(<<"1", ".", "0">>), Raw(bTrue), Raw(<<"x">>)}

RawObjects == UNION {[D -> FragVals] : D \in SUBSET Keys}

Elements == Kinds \cup {"undefined", "boolean"}

Tallies ==
    UNION {[D -> 0..MaxCount] : D \in {X \in SUBSET Kinds : Cardinality(X) <= MaxTallyKinds}}

----------------------------------------------------------------------------
(* The state machine: the caller calls the package's functions.  The       *)
(* functions keep no state and the inputs are chosen at the start, so a    *)
(* behaviour is one call, or UnmarshalObject and Inventory on its result:  *)
(* a later call would return what it returns as the first one.             *)

NoRet == [none |-> TRUE]

Init ==
    /\ \/ data \in RawInputs /\ shape = RawShape
       \/ \E sh \in Shapes : data = Render(sh) /\ shape = sh
    /\ old = EmptyObject
    /\ new = EmptyObject
    /\ have = FALSE
    /\ jd = NewJsonDescription
    /\ op = "none"
    /\ ret = NoRet

InitDiff ==
    /\ data = <<>>
    /\ shape = RawShape
    /\ old \in RawObjects
    /\ new \in RawObjects
    /\ have = TRUE
    /\ jd = NewJsonDescription
    /\ op = "none"
    /\ ret = NoRet

InitFriendly ==
    /\ data = <<>>
    /\ shape = RawShape
    /\ old = EmptyObject
    /\ new = EmptyObject
    /\ have = FALSE
    /\ jd \in [Element : Elements, Members : Tallies]
    /\ op = "none"
    /\ ret = NoRet

DoTypeOf ==
    /\ op = "none"
    /\ op' = "TypeOf"
    /\ ret' = TypeOf(data)
    /\ UNCHANGED <<data, shape, old, new, have, jd>>

DoDescribe ==
    /\ op = "none"
    /\ op' = "Describe"
    /\ ret' = Describe(data)
    /\ UNCHANGED <<data, shape, old, new, have, jd>>

\* The caller keeps the *RawObject it is handed.
DoUnmarshalObject ==
    /\ op = "none"
    /\ op' = "UnmarshalObject"
    /\ ret' = UnmarshalObject(data)
    /\ old' = ret'.obj
    /\ have' = TRUE
    /\ UNCHANGED <<data, shape, new, jd>>

DoUnmarshalArray ==
    /\ op = "none"
    /\ op' = "UnmarshalArray"
    /\ ret' = UnmarshalArray(data)
    /\ UNCHANGED <<data, shape, old, new, have, jd>>

DoInventory ==
    /\ op \in {"none", "UnmarshalObject"}
    /\ have
    /\ op' = "Inventory"
    /\ ret' = Inventory(old)
    /\ UNCHANGED <<data, shape, old, new, have, jd>>

DoDiff ==
    /\ op = "none"
    /\ have
    /\ \E qThis \in Orders(old), qThat \in Orders(new) :
           ret' = Diff(old, new, qThis, qThat)
    /\ op' = "Diff"
    /\ UNCHANGED <<data, shape, old, new, have, jd>>

DoDiffCount ==
    /\ op = "none"
    /\ have
    /\ \E qThis \in Orders(old), qThat \in Orders(new) :
           ret' = DiffCount(old, new, qThis, qThat)
    /\ op' = "DiffCount"
    /\ UNCHANGED <<data, shape, old, new, have, jd>>

DoFriendly ==
    /\ op = "none"
    /\ \E q \in Orders(jd.Members) : ret' = [s |-> Friendly(jd, q), q |-> q]
    /\ op' = "Friendly"
    /\ UNCHANGED <<data, shape, old, new, have, jd>>

Next == DoTypeOf \/ DoDescribe \/ DoUnmarshalObject \/ DoUnmarshalArray \/ DoInventory

NextDiff == DoDiff \/ DoDiffCount \/ DoInventory

NextFriendly == DoFriendly

Spec == Init /\ [][Next]_vars

SpecDiff == InitDiff /\ [][NextDiff]_vars

SpecFriendly == InitFriendly /\ [][NextFriendly]_vars

----------------------------------------------------------------------------
(* The JSON grammar (RFC 8259) by recursive descent, to say which inputs   *)
(* are JSON without the scanner.  Each P gives the position after the      *)
(* match that starts at byte i, or 0 when there is none.                   *)

At(b, i) == IF i \in 1..Len(b) THEN b[i] ELSE ""

\* The first position from i on that holds no white space.
SkipWs(b, i) ==
    CHOOSE j \in i..(Len(b) + 1) : At(b, j) # " " /\ \A k \in i..(j - 1) : At(b, k) = " "

\* The first position from i on that holds no digit.
PDigits(b, i) ==
    CHOOSE j \in i..(Len(b) + 1) : At(b, j) \notin Digits /\ \A k \in i..(j - 1) : At(b, k) \in Digits

PLit(b, i, lit) ==
    IF i + Len(lit) - 1 <= Len(b) /\ SubSeq(b, i, i + Len(lit) - 1) = lit
    THEN i + Len(lit) ELSE 0

PInt(b, i) ==
    IF At(b, i) = "0" THEN i + 1
    ELSE IF At(b, i) \in Digits19 THEN PDigits(b, i)
    ELSE 0

PFrac(b, i) ==
    IF i = 0 THEN 0
    ELSE IF At(b, i) # "." THEN i
    ELSE IF PDigits(b, i + 1) > i + 1 THEN PDigits(b, i + 1) ELSE 0

PExp(b, i) ==
    IF i = 0 THEN 0
    ELSE IF At(b, i) # "e" THEN i
    ELSE LET j == IF At(b, i + 1) \in {"+", "-"} THEN i + 2 ELSE i + 1
         IN  IF PDigits(b, j) > j THEN PDigits(b, j) ELSE 0

PNumber(b, i) == PExp(b, PFrac(b, PInt(b, IF At(b, i) = "-" THEN i + 1 ELSE i)))

\* A string from the quote at i to the next quote.
PString(b, i) ==
    LET close == {j \in (i + 1)..Len(b) : b[j] = "\""}
    IN  IF At(b, i) # "\"" \/ close = {} THEN 0
        ELSE (CHOOSE j \in close : \A k \in close : j <= k) + 1

RECURSIVE PValue(_, _), PElems(_, _), PMembers(_, _)
PValue(b, i) ==
    CASE At(b, i) = "{" ->
            IF At(b, SkipWs(b, i + 1)) = "}" THEN SkipWs(b, i + 1) + 1
            ELSE PMembers(b, SkipWs(b, i + 1))
      [] At(b, i) = "[" ->
            IF At(b, SkipWs(b, i + 1)) = "]" THEN SkipWs(b, i + 1) + 1
            ELSE PElems(b, SkipWs(b, i + 1))
      [] At(b, i) = "\"" -> PString(b, i)
      [] At(b, i) = "t" -> PLit(b, i, bTrue)
      [] At(b, i) = "f" -> PLit(b, i, bFalse)
      [] At(b, i) = "n" -> PLit(b, i, bNull)
      [] OTHER -> PNumber(b, i)

PElems(b, i) ==
    LET v == PValue(b, i)
        k == SkipWs(b, v)
    IN  IF v = 0 THEN 0
        ELSE IF At(b, k) = "," THEN PElems(b, SkipWs(b, k + 1))
        ELSE IF At(b, k) = "]" THEN k + 1
        ELSE 0

PMembers(b, i) ==
    LET s == PString(b, i)
        c == SkipWs(b, s)
        v == PValue(b, SkipWs(b, c + 1))
        k == SkipWs(b, v)
    IN  IF s = 0 \/ At(b, c) # ":" \/ v = 0 THEN 0
        ELSE IF At(b, k) = "," THEN PMembers(b, SkipWs(b, k + 1))
        ELSE IF At(b, k) = "}" THEN k + 1
        ELSE 0

IsJSON(b) ==
    LET j == PValue(b, SkipWs(b, 1))
    IN  j # 0 /\ SkipWs(b, j) = Len(b) + 1

\* The kind a value has by the byte it starts with.
KindAt(c) ==
    CASE c = "{" -> "object" [] c = "[" -> "array" [] c = "\"" -> "string"
      [] c = "t" -> "true" [] c = "f" -> "false" [] c = "n" -> "null"
      [] OTHER -> "number"

\* The immediate members of a JSON container by counting: a byte is in a
\* string when an odd number of quotes stands before it, its depth is the
\* brackets opened less the brackets closed before it, the members are
\* separated by the commas at depth 1, and a key is the string that follows
\* the { or such a comma.
InStr(b, i) == Cardinality({j \in 1..(i - 1) : b[j] = "\""}) % 2 = 1

Depth(b, i) ==
    Cardinality({j \in 1..(i - 1) : b[j] \in {"{", "["} /\ ~InStr(b, j)})
    - Cardinality({j \in 1..(i - 1) : b[j] \in {"}", "]"} /\ ~InStr(b, j)})

TopCommas(b) == {i \in 1..Len(b) : b[i] = "," /\ ~InStr(b, i) /\ Depth(b, i) = 1}

\* The position of the first quote after position p, 0 when there is none.
NextQuote(b, p) ==
    LET qs == {j \in (p + 1)..Len(b) : b[j] = "\""}
    IN  IF qs = {} THEN 0 ELSE CHOOSE j \in qs : \A k \in qs : j <= k

RefKeys(b) ==
    LET open == SkipWs(b, 1)
        starts == {NextQuote(b, p) : p \in {open} \cup TopCommas(b)} \ {0}
    IN  {Str(SubSeq(b, q + 1, NextQuote(b, q) - 1)) : q \in starts}

\* The number of immediate members: the distinct keys of an object, the
\* elements of an array.
RefMembers(b) ==
    LET open == SkipWs(b, 1)
        inside == {i \in (open + 1)..Len(b) : Depth(b, i) >= 1 /\ b[i] # " " /\ Depth(b, i + 1) >= 1}
    IN  IF At(b, open) = "{" THEN Cardinality(RefKeys(b))
        ELSE IF inside = {} THEN 0
        ELSE Cardinality(TopCommas(b)) + 1

RECURSIVE SumOver(_, _)
SumOver(m, D) ==
    IF D = {} THEN 0
    ELSE LET k == CHOOSE x \in D : TRUE IN m[k] + SumOver(m, D \ {k})

\* The sum of the counts of a tally.
Sum(m) == SumOver(m, DOMAIN m)

Range(q) == {q[i] : i \in DOMAIN q}

----------------------------------------------------------------------------
(* The properties.                                                         *)

\* C1: for every input that is not JSON, the empty one included, TypeOf
\* returns the not-valid-JSON error and none of the seven kinds, and fails
\* in no other way.
C1_InvalidRejected ==
    (op = "TypeOf" /\ ~IsJSON(data)) =>
        (ret.err = ErrNotValid /\ ret.typ \notin Kinds /\ ~ret.panic)

C1_Witness == op = "TypeOf" /\ data = <<>> /\ ret.err = ErrNotValid

\* C2: for every input that is JSON, white space before the value
\* included, TypeOf returns without error the kind that the first byte
\* which is not white space selects.
C2_KindOfFirstByte ==
    (op = "TypeOf" /\ IsJSON(data)) =>
        (ret.err = NoErr /\ ret.typ = KindAt(FirstByte(data)))

\* C3: the four lists of old.Diff(new) are pairwise disjoint.
C3_Disjoint ==
    (op = "Diff") =>
        \A c1, c2 \in DOMAIN ret : (c1 # c2) => (Range(ret[c1]) \cap Range(ret[c2]) = {})

\* C4: x.Diff(x) returns four empty lists.
C4_SelfDiffEmpty ==
    (op = "Diff" /\ old = new) => (\A c \in DOMAIN ret : ret[c] = <<>>)

\* The category the reference algorithm gives the key k, "" for none.
RefCategory(o, n, k) ==
    IF k \notin DOMAIN n THEN "deleted"
    ELSE IF k \notin DOMAIN o THEN "added"
    ELSE IF TypeOf(o[k].b).typ # TypeOf(n[k].b).typ THEN "typechanged"
    ELSE IF o[k].b # n[k].b THEN "modified"
    ELSE ""

\* C5: old.Diff(new) puts every key of either object in the category the
\* reference algorithm gives it, and in no other.
C5_Categories ==
    (op = "Diff") =>
        \A k \in DOMAIN old \cup DOMAIN new : \A c \in DOMAIN ret :
            (k \in Range(ret[c])) <=> (RefCategory(old, new, k) = c)

\* C6: each count of old.DiffCount(new) is the length of the list of
\* old.Diff(new) of the same name, a missing count being 0.
C6_CountsMatchLists ==
    (op = "DiffCount") =>
        \A qThis \in Orders(old), qThat \in Orders(new) :
            LET lists == Diff(old, new, qThis, qThat)
            IN  \A c \in {"added", "deleted", "modified", "typechanged"} :
                    (IF c \in DOMAIN ret THEN ret[c] ELSE 0) = Len(lists[c])

C6_Witness ==
    /\ op = "DiffCount"
    /\ DOMAIN ret = {"added", "modified"}
    /\ ret["added"] = 1
    /\ ret["modified"] = 1

C8_RoundTrip ==
    (IsJSON(data) /\ FirstByte(data) = "{") =>
        /\ (op = "UnmarshalObject") => (ret.err = NoErr /\ DOMAIN ret.obj = RefKeys(data))
        /\ (op = "Inventory") =>
              (DOMAIN ret.inv = RefKeys(data) /\ \A k \in DOMAIN ret.inv : ret.inv[k] \in Kinds)

\* C9: the tally of Describe's description is non-empty only when its
\* kind is object or array, and its counts then sum to the number of
\* immediate members; for the other kinds, and for input that is not JSON
\* (returned with the error and the kind undefined), it is empty.
C9_TallySum ==
    (op = "Describe") =>
        /\ IF IsJSON(data) THEN ret.err = NoErr /\ ret.descr.Element \in Kinds
           ELSE ret.err = ErrNotValid /\ ret.descr.Element = "undefined"
        /\ IF ret.descr.Element \in {"object", "array"}
           THEN /\ Sum(ret.descr.Members) = RefMembers(data)
                /\ \A k \in DOMAIN ret.descr.Members :
                      k \in Kinds /\ ret.descr.Members[k] > 0
           ELSE DOMAIN ret.descr.Members = {}

C9_Witness ==
    /\ op = "Describe"
    /\ ret.descr.Element = "object"
    /\ Cardinality(DOMAIN ret.descr.Members) = 1
    /\ Sum(ret.descr.Members) = 2

\* The phrase of a kind k counted n times.
RefPhrase(n, k) == ToString(n) \o " " \o k \o (IF n > 1 THEN "s" ELSE "")

\* The phrases p1, p2, ..., and pn of a list of three or more.
RECURSIVE RefList(_)
RefList(ps) ==
    IF Len(ps) = 1 THEN "and " \o ps[1] ELSE ps[1] \o ", " \o RefList(Tail(ps))

\* C10: for the kinds object and array, under every order of the tally,
\* Friendly gives one phrase per kind with a count above 0, with the
\* plural s exactly when the count is above 1, joined by the number of
\* phrases: none, one, two (and), three or more (commas, and ", and "
\* before the last); a kind that is not recognized gives "undefined".
C10_Friendly ==
    (op = "Friendly") =>
        LET NonZero(k) == jd.Members[k] > 0
            ks == SelectSeq(ret.q, NonZero)
            ps == [i \in 1..Len(ks) |-> RefPhrase(jd.Members[ks[i]], ks[i])]
            n == Len(ps)
        IN  /\ (jd.Element \in {"object", "array"}) =>
                  /\ (n = 0) => (ret.s = "an empty " \o jd.Element)
                  /\ (n = 1) => (ret.s = "an " \o jd.Element \o " with " \o ps[1])
                  /\ (n = 2) => (ret.s = "an " \o jd.Element \o " with " \o ps[1]
                                             \o " and " \o ps[2])
                  /\ (n >= 3) => (ret.s = "an " \o jd.Element \o " with " \o RefList(ps))
            /\ (jd.Element \notin Kinds) => (ret.s = "undefined")

C10_Witness ==
    /\ op = "Friendly"
    /\ jd.Element = "array"
    /\ Cardinality({k \in DOMAIN jd.Members : jd.Members[k] > 0}) = 3
    /\ \E k \in DOMAIN jd.Members : jd.Members[k] = 1
    /\ \E k \in DOMAIN jd.Members : jd.Members[k] > 1

====
